---- MODULE Spec2Model ----
(***************************************************************************)
(* Model of Backend/app.py: a Flask application that keeps an in-memory    *)
(* project list and a per-project message history, and forwards text to a  *)
(* chat-completion provider.  The development server (app.run) serves each *)
(* request on its own thread, so a handler is modelled as a sequence of    *)
(* steps, one per access to the shared module-level state, and the steps   *)
(* of different requests interleave.                                       *)
(***************************************************************************)
EXTENDS Integers, Sequences, FiniteSets, TLC

(* ---- bounds of the model ---- *)
\* Requests received in one run.
MaxRequests == 3
\* Projects created in one run.
MaxProjects == 2

\* The worker threads: two requests at a time are in progress.
Threads == {1, 2}

(* ---- values ---- *)
\* Python None (a key absent from the request body read with data.get).
NoneVal == "<None>"
\* A project id no uuid4() call ever returns.
BogusId == "no-such-id"
\* The values uuid4() returns, in the order it returns them.
UUIDs == <<"id1", "id2", "id3", "id4", "id5">>
\* Names a client may give a project.
GivenNames == {"Alpha"}
\* Update texts a client may send (sequences of characters).
Updates == {<<"u">>, <<"v">>}
\* Notes a client may send to the handlers that store nothing.
Notes == {<<"n">>}
\* Texts the completion provider may return (sequences of characters).
GatewayTexts == {<<"f">>, <<" ", "g", " ">>}
NoText == <<>>
NoResponse == [endpoint |-> NoneVal, status |-> 0, body |-> <<>>]
NoBody == [name |-> NoneVal, update |-> NoText, project_id |-> NoneVal]

VARIABLES
    projects,          \* module-level list `projects`
    project_messages,  \* module-level dict `project_messages`
    issued,            \* number of uuid4() values drawn so far
    started,           \* number of requests received so far
    pc,                \* per thread: the line its handler is about to run
    data,              \* per thread: request body (request.get_json()) / path
    name,              \* per thread: local `name` of create_project
    project_id,        \* per thread: local `project_id`
    completion,        \* per thread: local `response` (the provider's choices)
    formatted,         \* per thread: local text taken from the completion
    ref,               \* per thread: what project_messages.get returned
    before,            \* per thread (history): the sequence stored for the
                       \* project of a format request when the request arrived
    response           \* per thread: the HTTP response produced

vars == <<projects, project_messages, issued, started, pc, data, name,
          project_id, completion, formatted, ref, before, response>>

store == <<projects, project_messages>>
locals == <<name, project_id, completion, formatted, ref>>

(* ---- pure helpers ---- *)
\* str(uuid4()): a value never returned before.
\* (variant: the same value every time)
uuid4_reused(n) == UUIDs[1]
uuid4(n) == UUIDs[n + 1]

\* f"Project {len(projects) + 1}"
\* (variant: the count itself)
DefaultName_off_by_one(plist) == "Project " \o ToString(Len(plist))
DefaultName(plist) == "Project " \o ToString(Len(plist) + 1)

\* data.get('name', default)
GetName(d, default) == IF d.name = NoneVal THEN default ELSE d.name

\* Python truthiness of a string-or-None value.
Truthy(v) == v # NoneVal /\ v # ""

\* dict[key] = value
DictSet(dict, key, value) == (key :> value) @@ dict

\* dict[key].append(value)
\* (variants: insert at the front; replace the list)
ListAppend_prepend(dict, key, value) == [dict EXCEPT ![key] = <<value>> \o @]
ListAppend_overwrite(dict, key, value) == [dict EXCEPT ![key] = <<value>>]
ListAppend(dict, key, value) == [dict EXCEPT ![key] = Append(@, value)]

\* dict.get(key, []) yields the stored list object or a fresh empty list.
DictGet(dict, key) == IF key \in DOMAIN dict THEN "stored" ELSE "default"

\* str.strip() on a sequence of characters.
RECURSIVE LStrip(_)
LStrip(s) == IF s # <<>> /\ Head(s) = " " THEN LStrip(Tail(s)) ELSE s
RECURSIVE RStrip(_)
RStrip(s) == IF s # <<>> /\ s[Len(s)] = " " THEN RStrip(SubSeq(s, 1, Len(s) - 1)) ELSE s
Strip(s) == RStrip(LStrip(s))

\* jsonify(body): a 200 response of the endpoint.
Ok(endpoint, body) == [endpoint |-> endpoint, status |-> 200, body |-> body]
\* An exception escaping the handler: Flask answers 500.
ServerError(endpoint) == [endpoint |-> endpoint, status |-> 500, body |-> <<>>]

\* The sequence stored for a project id, empty when there is none.
Stored(dict, key) == IF key \in DOMAIN dict THEN dict[key] ELSE <<>>

ProjectIds == {projects[i].id : i \in 1..Len(projects)}
\* project ids a client can send: none, empty, unknown, or one it has seen.
BodyProjectIds == {NoneVal, "", BogusId} \cup ProjectIds
PathProjectIds == {BogusId} \cup ProjectIds

Init ==
    /\ projects = <<>>
    /\ project_messages = <<>>
    /\ issued = 0
    /\ started = 0
    /\ pc = [t \in Threads |-> "idle"]
    /\ data = [t \in Threads |-> NoBody]
    /\ name = [t \in Threads |-> NoneVal]
    /\ project_id = [t \in Threads |-> NoneVal]
    /\ completion = [t \in Threads |-> <<>>]
    /\ formatted = [t \in Threads |-> NoText]
    /\ ref = [t \in Threads |-> NoneVal]
    /\ before = [t \in Threads |-> <<>>]
    /\ response = [t \in Threads |-> NoResponse]

\* A worker thread that has run no handler yet or whose last response has
\* been sent, while the run may still receive a request.
Free(t) == pc[t] \in {"idle", "done"} /\ started < MaxRequests

\* A request arrives on a worker thread: the handler starts at `line` with
\* request body `body` and its local project_id bound to `id`.
Receive(t, line, body, id) ==
    /\ started' = started + 1
    /\ pc' = [pc EXCEPT ![t] = line]
    /\ data' = [data EXCEPT ![t] = body]
    /\ project_id' = [project_id EXCEPT ![t] = id]
    /\ response' = [response EXCEPT ![t] = NoResponse]
    /\ before' = [before EXCEPT ![t] =
                     IF line = "format_L66" THEN Stored(project_messages, id) ELSE <<>>]
    /\ UNCHANGED <<store, issued, name, completion, formatted, ref>>

\* The handler's frame is left: the response is produced and the locals go
\* out of scope.
Leave(t, r) ==
    /\ pc' = [pc EXCEPT ![t] = "done"]
    /\ response' = [response EXCEPT ![t] = r]
    /\ data' = [data EXCEPT ![t] = NoBody]
    /\ name' = [name EXCEPT ![t] = NoneVal]
    /\ project_id' = [project_id EXCEPT ![t] = NoneVal]
    /\ completion' = [completion EXCEPT ![t] = <<>>]
    /\ formatted' = [formatted EXCEPT ![t] = NoText]
    /\ ref' = [ref EXCEPT ![t] = NoneVal]
    /\ before' = [before EXCEPT ![t] = <<>>]

\* return jsonify(...), or an exception escaping the handler.
Return(t, r) ==
    /\ Leave(t, r)
    /\ UNCHANGED <<store, issued, started>>

\* openai.chat.completions.create(...): the blocking provider call either
\* raises (network or provider error) or returns a response whose list of
\* choices is empty or holds one generated text.
Complete(t, endpoint, next) ==
    \/ Return(t, ServerError(endpoint))
    \/ /\ \E choices \in {<<>>} \cup {<<txt>> : txt \in GatewayTexts} :
              completion' = [completion EXCEPT ![t] = choices]
       /\ pc' = [pc EXCEPT ![t] = next]
       /\ UNCHANGED <<store, issued, started, data, name, project_id, formatted,
                      ref, before, response>>

(* ---- GET /projects ---- *)
get_projects_L25(t) ==
    /\ Free(t)
    /\ Receive(t, "get_projects_L26", NoBody, NoneVal)

get_projects_L26(t) ==
    /\ pc[t] = "get_projects_L26"
    /\ Return(t, Ok("GET /projects", projects))

(* ---- POST /projects ---- *)
CreatesInFlight == Cardinality({t \in Threads : pc[t] \in {"create_L31", "create_L34"}})

create_project_L30(t) ==
    /\ Free(t)
    /\ Len(projects) + CreatesInFlight < MaxProjects
    /\ \E n \in GivenNames \cup {NoneVal} :
           Receive(t, "create_L31", [NoBody EXCEPT !.name = n], NoneVal)

create_project_L31_33(t) ==
    /\ pc[t] = "create_L31"
    /\ name' = [name EXCEPT ![t] = GetName(data[t], DefaultName(projects))]
    /\ project_id' = [project_id EXCEPT ![t] = uuid4(issued)]
    /\ issued' = issued + 1
    /\ pc' = [pc EXCEPT ![t] = "create_L34"]
    /\ UNCHANGED <<store, started, data, completion, formatted, ref, before, response>>

\* (variant: the mapping is filled before the list)
create_project_L34_mapping_first(t) ==
    /\ pc[t] = "create_L34"
    /\ project_messages' = DictSet(project_messages, project_id[t], <<>>)
    /\ pc' = [pc EXCEPT ![t] = "create_L35"]
    /\ UNCHANGED <<projects, issued, started, data, locals, before, response>>

create_project_L34(t) ==
    /\ pc[t] = "create_L34"
    /\ projects' = Append(projects, [id |-> project_id[t], name |-> name[t]])
    /\ pc' = [pc EXCEPT ![t] = "create_L35"]
    /\ UNCHANGED <<project_messages, issued, started, data, locals, before, response>>

create_project_L35(t) ==
    /\ pc[t] = "create_L35"
    /\ project_messages' = DictSet(project_messages, project_id[t], <<>>)
    /\ pc' = [pc EXCEPT ![t] = "create_L36"]
    /\ UNCHANGED <<projects, issued, started, data, locals, before, response>>

create_project_L36(t) ==
    /\ pc[t] = "create_L36"
    /\ Return(t, Ok("POST /projects", [id |-> project_id[t], name |-> name[t]]))

(* ---- GET /projects/<project_id>/messages ---- *)
get_project_messages_L39(t) ==
    /\ Free(t)
    /\ \E id \in PathProjectIds : Receive(t, "get_messages_L40", NoBody, id)

\* (variant: project_messages.setdefault(project_id, []))
get_project_messages_L40_get_setdefault(t) ==
    /\ pc[t] = "get_messages_L40"
    /\ project_messages' = IF project_id[t] \in DOMAIN project_messages
                           THEN project_messages
                           ELSE DictSet(project_messages, project_id[t], <<>>)
    /\ ref' = [ref EXCEPT ![t] = "stored"]
    /\ pc' = [pc EXCEPT ![t] = "get_messages_L40_jsonify"]
    /\ UNCHANGED <<projects, issued, started, data, name, project_id, completion,
                   formatted, before, response>>

\* project_messages.get(project_id, []): the stored list object or a new one.
get_project_messages_L40_get(t) ==
    /\ pc[t] = "get_messages_L40"
    /\ ref' = [ref EXCEPT ![t] = DictGet(project_messages, project_id[t])]
    /\ pc' = [pc EXCEPT ![t] = "get_messages_L40_jsonify"]
    /\ UNCHANGED <<store, issued, started, data, name, project_id, completion,
                   formatted, before, response>>

\* jsonify(...) serialises the list object as it is when it is read.
get_project_messages_L40_jsonify(t) ==
    /\ pc[t] = "get_messages_L40_jsonify"
    /\ Return(t, Ok("GET /messages",
                    IF ref[t] = "stored" THEN project_messages[project_id[t]] ELSE <<>>))

(* ---- POST /format ---- *)
format_update_L45(t) ==
    /\ Free(t)
    /\ \E u \in Updates, id \in BodyProjectIds :
           Receive(t, "format_L66", [NoBody EXCEPT !.update = u, !.project_id = id], id)

\* (variant: the user message is saved before the provider is called)
format_update_L66_saves_first(t) ==
    /\ pc[t] = "format_L66"
    /\ project_messages' =
           IF Truthy(project_id[t]) /\ project_id[t] \in DOMAIN project_messages
           THEN ListAppend(project_messages, project_id[t],
                           [role |-> "user", content |-> data[t].update])
           ELSE project_messages
    /\ \/ Leave(t, ServerError("/format"))
       \/ /\ \E choices \in {<<>>} \cup {<<txt>> : txt \in GatewayTexts} :
                 completion' = [completion EXCEPT ![t] = choices]
          /\ pc' = [pc EXCEPT ![t] = "format_L73"]
          /\ UNCHANGED <<data, name, project_id, formatted, ref, before, response>>
    /\ UNCHANGED <<projects, issued, started>>

format_update_L66(t) ==
    /\ pc[t] = "format_L66"
    /\ Complete(t, "/format", "format_L73")

\* response.choices[0].message.content raises IndexError on an empty list.
format_update_L73(t) ==
    /\ pc[t] = "format_L73"
    /\ IF completion[t] = <<>>
       THEN Return(t, ServerError("/format"))
       ELSE /\ formatted' = [formatted EXCEPT ![t] = completion[t][1]]
            /\ pc' = [pc EXCEPT ![t] = "format_L76"]
            /\ UNCHANGED <<store, issued, started, data, name, project_id,
                           completion, ref, before, response>>

\* (variant: the key is created when it is missing)
format_update_L76_setdefault(t) ==
    /\ pc[t] = "format_L76"
    /\ project_messages' = IF project_id[t] \in DOMAIN project_messages
                           THEN project_messages
                           ELSE DictSet(project_messages, project_id[t], <<>>)
    /\ pc' = [pc EXCEPT ![t] = "format_L77"]
    /\ UNCHANGED <<projects, issued, started, data, locals, before, response>>

format_update_L76(t) ==
    /\ pc[t] = "format_L76"
    /\ pc' = [pc EXCEPT ![t] =
                 IF Truthy(project_id[t]) /\ project_id[t] \in DOMAIN project_messages
                 THEN "format_L77" ELSE "format_L79"]
    /\ UNCHANGED <<store, issued, started, data, locals, before, response>>

\* (variant: both messages are appended in one step)
format_update_L77_atomic_pair(t) ==
    /\ pc[t] = "format_L77"
    /\ project_messages' =
           [project_messages EXCEPT ![project_id[t]] =
               @ \o <<[role |-> "user", content |-> data[t].update],
                      [role |-> "bot", content |-> formatted[t]]>>]
    /\ pc' = [pc EXCEPT ![t] = "format_L79"]
    /\ UNCHANGED <<projects, issued, started, data, locals, before, response>>

format_update_L77(t) ==
    /\ pc[t] = "format_L77"
    /\ project_messages' = ListAppend(project_messages, project_id[t],
                                      [role |-> "user", content |-> data[t].update])
    /\ pc' = [pc EXCEPT ![t] = "format_L78"]
    /\ UNCHANGED <<projects, issued, started, data, locals, before, response>>

format_update_L78(t) ==
    /\ pc[t] = "format_L78"
    /\ project_messages' = ListAppend(project_messages, project_id[t],
                                      [role |-> "bot", content |-> formatted[t]])
    /\ pc' = [pc EXCEPT ![t] = "format_L79"]
    /\ UNCHANGED <<projects, issued, started, data, locals, before, response>>

format_update_L79(t) ==
    /\ pc[t] = "format_L79"
    /\ Return(t, Ok("/format", formatted[t]))

(* ---- the handlers that only call the provider ---- *)
\* data = request.get_json() and the locals read from it.
ReceiveText(t, line) ==
    \E u \in Notes, id \in BodyProjectIds :
        Receive(t, line, [NoBody EXCEPT !.update = u, !.project_id = id], id)

\* response.choices[0].message.content, optionally .strip(), then jsonify.
ReturnText(t, endpoint, strip) ==
    IF completion[t] = <<>>
    THEN Return(t, ServerError(endpoint))
    ELSE Return(t, Ok(endpoint,
                      IF strip THEN Strip(completion[t][1]) ELSE completion[t][1]))

summarize_project_L84(t) ==
    /\ Free(t)
    /\ ReceiveText(t, "summarize_L101")
summarize_project_L101(t) ==
    /\ pc[t] = "summarize_L101"
    /\ Complete(t, "/summarize", "summarize_L108")
\* (variant: the summary is saved to the project like a formatted update)
summarize_project_L108_saves(t) ==
    /\ pc[t] = "summarize_L108"
    /\ IF completion[t] = <<>>
       THEN Return(t, ServerError("/summarize"))
       ELSE /\ project_messages' =
                   IF Truthy(project_id[t]) /\ project_id[t] \in DOMAIN project_messages
                   THEN ListAppend(project_messages, project_id[t],
                                   [role |-> "bot", content |-> completion[t][1]])
                   ELSE project_messages
            /\ Leave(t, Ok("/summarize", completion[t][1]))
            /\ UNCHANGED <<projects, issued, started>>

summarize_project_L108(t) ==
    /\ pc[t] = "summarize_L108"
    /\ ReturnText(t, "/summarize", FALSE)

extract_action_items_L115(t) ==
    /\ Free(t)
    /\ ReceiveText(t, "action_items_L132")
extract_action_items_L132(t) ==
    /\ pc[t] = "action_items_L132"
    /\ Complete(t, "/action-items", "action_items_L139")
extract_action_items_L139(t) ==
    /\ pc[t] = "action_items_L139"
    /\ ReturnText(t, "/action-items", TRUE)

analyze_sentiment_L146(t) ==
    /\ Free(t)
    /\ ReceiveText(t, "sentiment_L163")
analyze_sentiment_L163(t) ==
    /\ pc[t] = "sentiment_L163"
    /\ Complete(t, "/sentiment", "sentiment_L170")
analyze_sentiment_L170(t) ==
    /\ pc[t] = "sentiment_L170"
    /\ ReturnText(t, "/sentiment", TRUE)

generate_email_L177(t) ==
    /\ Free(t)
    /\ ReceiveText(t, "email_L190")
generate_email_L190(t) ==
    /\ pc[t] = "email_L190"
    /\ Complete(t, "/generate-email", "email_L197")
generate_email_L197(t) ==
    /\ pc[t] = "email_L197"
    /\ ReturnText(t, "/generate-email", FALSE)

(* ---- POST /create-checkout-session ---- *)
CheckoutUrl == <<"https://example.com/checkout">>

create_checkout_session_L203(t) ==
    /\ Free(t)
    /\ Receive(t, "checkout_L205", NoBody, NoneVal)

create_checkout_session_L205(t) ==
    /\ pc[t] = "checkout_L205"
    /\ Return(t, Ok("/create-checkout-session", CheckoutUrl))

Next ==
    \E t \in Threads :
        \/ get_projects_L25(t)
        \/ get_projects_L26(t)
        \/ create_project_L30(t)
        \/ create_project_L31_33(t)
        \/ create_project_L34(t)
        \/ create_project_L35(t)
        \/ create_project_L36(t)
        \/ get_project_messages_L39(t)
        \/ get_project_messages_L40_get(t)
        \/ get_project_messages_L40_jsonify(t)
        \/ format_update_L45(t)
        \/ format_update_L66(t)
        \/ format_update_L73(t)
        \/ format_update_L76(t)
        \/ format_update_L77(t)
        \/ format_update_L78(t)
        \/ format_update_L79(t)
        \/ summarize_project_L84(t)
        \/ summarize_project_L101(t)
        \/ summarize_project_L108(t)
        \/ extract_action_items_L115(t)
        \/ extract_action_items_L132(t)
        \/ extract_action_items_L139(t)
        \/ analyze_sentiment_L146(t)
        \/ analyze_sentiment_L163(t)
        \/ analyze_sentiment_L170(t)
        \/ generate_email_L177(t)
        \/ generate_email_L190(t)
        \/ generate_email_L197(t)
        \/ create_checkout_session_L203(t)
        \/ create_checkout_session_L205(t)

Spec == Init /\ [][Next]_vars

(***************************************************************************)
(* Properties                                                              *)
(***************************************************************************)
User(u) == [role |-> "user", content |-> u]
Bot(f) == [role |-> "bot", content |-> f]
Last(seq) == seq[Len(seq)]
IsPrefix(a, b) == Len(a) <= Len(b) /\ SubSeq(b, 1, Len(a)) = a
\* The step is a step of thread t.
StepOf(t) == pc'[t] # pc[t]

FormatLines == {"format_L66", "format_L73", "format_L76", "format_L77",
                "format_L78", "format_L79"}
CallLines == {"format_L66", "summarize_L101", "action_items_L132",
              "sentiment_L163", "email_L190"}
ReadLines == {"format_L73", "summarize_L108", "action_items_L139",
              "sentiment_L170", "email_L197"}
TextOnlyLines == (CallLines \cup ReadLines) \ FormatLines

\* C1 as stated: when a format request with a known project id has appended
\* its bot message, the project's sequence is the sequence stored when the
\* request arrived followed by exactly the request's user and bot entries.
C1_AsStated ==
    [][\A t \in Threads :
          (pc[t] = "format_L78" /\ StepOf(t)) =>
              project_messages'[project_id[t]] =
                  before[t] \o <<User(data[t].update), Bot(completion[t][1])>>]_vars

\* C1 (amended): a format request whose call returned text and whose
\* project id is a key of the mapping appends exactly two entries to that
\* project's sequence, first {user, update}, later {bot, returned text}, each
\* at the end of the sequence as it is at that moment; what was stored when
\* the request arrived stays a prefix; the response carries the same text;
\* and when no other request appended to the project in the meantime the
\* sequence is the earlier one followed by exactly these two entries.
C1_Step(t) ==
    LET id == project_id[t]
        new == project_messages'[id]
    IN /\ (pc[t] = "format_L77" /\ StepOf(t)) =>
              /\ new = project_messages[id] \o <<User(data[t].update)>>
              /\ pc'[t] = "format_L78"
       /\ (pc[t] = "format_L78" /\ StepOf(t)) =>
              /\ new = project_messages[id] \o <<Bot(completion[t][1])>>
              /\ IsPrefix(before[t], new)
              /\ \E i \in (Len(before[t]) + 1)..(Len(new) - 1) :
                     new[i] = User(data[t].update)
              /\ Len(new) = Len(before[t]) + 2 =>
                     new = before[t] \o <<User(data[t].update), Bot(completion[t][1])>>
       /\ (pc[t] \in FormatLines \ {"format_L77", "format_L78"} /\ StepOf(t)) =>
              UNCHANGED store
       /\ (pc[t] = "format_L79" /\ StepOf(t)) =>
              response'[t] = Ok("/format", completion[t][1])
\* C1 (amended): every step of every thread appends the pair as described.
C1_PairAppended == [][\A t \in Threads : C1_Step(t)]_vars

\* C1 witness: a format request has appended its pair right after a
\* non-empty earlier history of its project.
C1_Witness ==
    \E t \in Threads :
        /\ pc[t] = "format_L79"
        /\ before[t] # <<>>
        /\ project_id[t] \in DOMAIN project_messages
        /\ project_messages[project_id[t]] =
               before[t] \o <<User(data[t].update), Bot(formatted[t])>>

\* C2: in every handler that calls the provider, a call that raises and a
\* response without choices both end the request with a failure response,
\* and no step of the request up to and including the failure changes the
\* project list or any message sequence; a step of a format request that
\* changes the store is taken only after the call has returned text.
C2_Step(t) ==
    /\ (pc[t] \in CallLines /\ pc'[t] = "done") =>
           response'[t].status = 500
    /\ (pc[t] \in ReadLines /\ completion[t] = <<>> /\ StepOf(t)) =>
           /\ pc'[t] = "done"
           /\ response'[t].status = 500
           /\ UNCHANGED store
    /\ ((pc[t] \in CallLines \/ pc'[t] \in CallLines) /\ StepOf(t)) =>
           UNCHANGED store
    /\ (pc[t] \in FormatLines /\ StepOf(t) /\ store' # store) =>
           completion[t] \in {<<txt>> : txt \in GatewayTexts}
\* C2: a failed provider call ends in a failure response and stores nothing.
C2_FailureLeavesStore == [][\A t \in Threads : C2_Step(t)]_vars

\* C2 witness: a format request has failed while projects and messages exist.
C2_Witness ==
    \E t \in Threads :
        /\ response[t] = ServerError("/format")
        /\ \E id \in DOMAIN project_messages : project_messages[id] # <<>>

\* C3: a format request whose project id is absent, empty or not a key of
\* the mapping when line 76 tests it goes straight to its return, no step
\* of the request changes the project list or the mapping (no key is
\* added), and the response carries the text the provider returned.
C3_Unknown(t) == ~(Truthy(project_id[t]) /\ project_id[t] \in DOMAIN project_messages)
C3_Step(t) ==
    /\ (pc[t] = "format_L76" /\ C3_Unknown(t) /\ StepOf(t)) =>
           /\ pc'[t] = "format_L79"
           /\ UNCHANGED store
    /\ (pc[t] = "format_L76" /\ ~C3_Unknown(t) /\ StepOf(t)) =>
           /\ pc'[t] = "format_L77"
           /\ UNCHANGED store
    /\ (pc[t] \in {"format_L77", "format_L78"}) =>
           project_id[t] \in DOMAIN project_messages
    /\ ((pc[t] \in {"format_L66", "format_L73", "format_L79"} \/ pc'[t] = "format_L66")
            /\ StepOf(t)) =>
           UNCHANGED store
    /\ (pc[t] = "format_L79" /\ StepOf(t)) =>
           /\ completion[t] \in {<<txt>> : txt \in GatewayTexts}
           /\ response'[t] = Ok("/format", completion[t][1])
\* C3: a format request with an unknown project id stores nothing and
\* returns the text.
C3_UnknownIdStoresNothing == [][\A t \in Threads : C3_Step(t)]_vars

\* C3 witness: a format request with an unknown id is about to return its
\* text while the mapping holds a project.
C3_Witness ==
    \E t \in Threads :
        /\ pc[t] = "format_L79"
        /\ project_id[t] \in {NoneVal, "", BogusId}
        /\ formatted[t] \in GatewayTexts
        /\ DOMAIN project_messages # {}

\* C4: no step of a summarize, action-items, sentiment or generate-email
\* request changes the project list or any message sequence.
C4_Step(t) ==
    ((pc[t] \in TextOnlyLines \/ pc'[t] \in TextOnlyLines) /\ StepOf(t)) =>
        UNCHANGED store
\* C4: the four text-only handlers never change the store.
C4_TextHandlersStoreNothing == [][\A t \in Threads : C4_Step(t)]_vars

\* C4 witness: a summarize request naming a known project with stored
\* messages has its text and is about to return.
C4_Witness ==
    \E t \in Threads :
        /\ pc[t] = "summarize_L108"
        /\ completion[t] # <<>>
        /\ project_id[t] \in DOMAIN project_messages
        /\ project_messages[project_id[t]] # <<>>

\* f"Project {k}"
ProjectN(k) == "Project " \o ToString(k)
\* The stored projects that were created without a name, in list order.
Unnamed == SelectSeq(projects, LAMBDA p : p.name \notin GivenNames)

\* C5 as stated: the Nth project created without a name is named
\* "Project N", whatever other creations came before it.
C5_AsStated == \A n \in 1..Len(Unnamed) : Unnamed[n].name = ProjectN(n)

\* C5 (amended): a create-project request without a name is named
\* "Project K" where K is one more than the number of projects, named or
\* not, in the list when the request reads it; so with no project stored
\* the name is "Project 1", K never exceeds the position the project gets
\* in the list, and the response carries the stored name.
C5_Step(t) ==
    /\ (pc[t] = "create_L31" /\ StepOf(t) /\ data[t].name = NoneVal) =>
           /\ name'[t] = ProjectN(Len(projects) + 1)
           /\ projects = <<>> => name'[t] = "Project 1"
    /\ (pc[t] = "create_L34" /\ StepOf(t) /\ data[t].name = NoneVal) =>
           /\ Last(projects').name = name[t]
           /\ \E k \in 1..Len(projects') : name[t] = ProjectN(k)
    /\ (pc[t] = "create_L36" /\ StepOf(t)) =>
           response'[t].body.name = name[t]
\* C5 (amended): the default name counts every project in the list.
C5_NameCountsAllProjects == [][\A t \in Threads : C5_Step(t)]_vars

\* C5 witness: the first project created without a name is "Project 2",
\* because a named project was created before it.
C5_Witness ==
    /\ Len(projects) = 2
    /\ projects[1].name \in GivenNames
    /\ projects[2].name = "Project 2"

\* C6: every key of the message mapping is the id of a project in the list.
C6_KeysHaveProjects == DOMAIN project_messages \subseteq ProjectIds

\* C6 witness: a create-project request is between its two insertions (its
\* project is in the list, its key not yet in the mapping) while the
\* mapping already holds another project's key.
C6_Witness ==
    \E t \in Threads :
        /\ pc[t] = "create_L35"
        /\ project_id[t] \in ProjectIds
        /\ project_id[t] \notin DOMAIN project_messages
        /\ DOMAIN project_messages # {}

\* C7: a list-messages request changes neither the project list nor the
\* mapping (no key is added), always answers 200, and answers the sequence
\* stored for its id when the id is a key at the lookup and the empty
\* sequence when it is not.
C7_Step(t) ==
    /\ (pc'[t] = "get_messages_L40" /\ StepOf(t)) => UNCHANGED store
    /\ (pc[t] = "get_messages_L40" /\ StepOf(t)) =>
           /\ UNCHANGED store
           /\ pc'[t] = "get_messages_L40_jsonify"
           /\ ref'[t] = "stored" <=> project_id[t] \in DOMAIN project_messages
    /\ (pc[t] = "get_messages_L40_jsonify" /\ StepOf(t)) =>
           /\ UNCHANGED store
           /\ response'[t].status = 200
           /\ response'[t].body =
                  IF ref[t] = "stored" THEN project_messages[project_id[t]] ELSE <<>>
           /\ project_id[t] \notin DOMAIN project_messages => response'[t].body = <<>>
\* C7: list-messages only reads, and answers the stored or the empty sequence.
C7_ListMessagesReadsOnly == [][\A t \in Threads : C7_Step(t)]_vars

\* C7 witness: a list-messages request has answered a stored pair.
C7_Witness ==
    \E t \in Threads :
        /\ response[t].endpoint = "GET /messages"
        /\ response[t].status = 200
        /\ Len(response[t].body) = 2

\* The entries of a sequence with a given role.
CountRole(seq, role) == Cardinality({i \in 1..Len(seq) : seq[i].role = role})
\* The format requests between their two appends to a project.
Unpaired(id) == {t \in Threads : pc[t] = "format_L78" /\ project_id[t] = id}

\* C8: the two appends of a format request are separate steps: after the
\* first the project's sequence ends with the request's user message and
\* the request has yet to append its bot message, and in every state each
\* project's sequence holds exactly as many user messages without their
\* bot message as there are format requests between their two appends.
C8_State ==
    \A id \in DOMAIN project_messages :
        CountRole(project_messages[id], "user") =
            CountRole(project_messages[id], "bot") + Cardinality(Unpaired(id))
C8_Step(t) ==
    (pc[t] = "format_L77" /\ StepOf(t)) =>
        /\ pc'[t] = "format_L78"
        /\ Last(project_messages'[project_id[t]]) = User(data[t].update)
\* C8: the user and bot appends of format are not atomic as a pair.
C8_PairNotAtomic == [][C8_State' /\ \A t \in Threads : C8_Step(t)]_vars

\* C8 witness: two concurrent format requests have stored user1, user2,
\* bot1, bot2.
C8_Witness ==
    \E id \in DOMAIN project_messages :
        LET seq == project_messages[id]
        IN /\ Len(seq) = 4
           /\ seq[1].role = "user" /\ seq[2].role = "user"
           /\ seq[3].role = "bot" /\ seq[4].role = "bot"
           /\ seq[1] # seq[2]
           /\ seq[3] # seq[4]

\* C9: in every step the project list before is a prefix of the project
\* list after, every key of the mapping stays a key, and each stored
\* sequence before is a prefix of the sequence after.
C9_AppendOnly ==
    [][/\ IsPrefix(projects, projects')
       /\ \A id \in DOMAIN project_messages :
              /\ id \in DOMAIN project_messages'
              /\ IsPrefix(project_messages[id], project_messages'[id])]_vars

\* C9 witness: two projects are stored and one of them holds messages.
C9_Witness ==
    /\ Len(projects) = 2
    /\ \E id \in DOMAIN project_messages : Len(project_messages[id]) >= 2

\* The threads whose last response is a created project.
Created == {t \in Threads : /\ response[t].endpoint = "POST /projects"
                            /\ response[t].status = 200}

\* C10: create-project requests running together all succeed: the returned
\* projects have distinct ids, each is in the project list, each id is a
\* key of the mapping, and the step that inserts the key gives it the empty
\* sequence and leaves every other key and sequence as it was.
C10_State ==
    /\ \A t \in Created :
           /\ \E i \in 1..Len(projects) : projects[i] = response[t].body
           /\ response[t].body.id \in DOMAIN project_messages
    /\ \A t1, t2 \in Created : t1 # t2 => response[t1].body.id # response[t2].body.id
    /\ \A i, j \in 1..Len(projects) : i # j => projects[i].id # projects[j].id
C10_Step(t) ==
    /\ (pc[t] = "create_L35" /\ StepOf(t)) =>
           /\ project_id[t] \notin DOMAIN project_messages
           /\ project_messages'[project_id[t]] = <<>>
           /\ \A id \in DOMAIN project_messages :
                  /\ id \in DOMAIN project_messages'
                  /\ project_messages'[id] = project_messages[id]
    /\ (pc[t] = "create_L36" /\ StepOf(t)) =>
           /\ response'[t].status = 200
           /\ response'[t].body.id = project_id[t]
\* C10: concurrent create-project requests both succeed without conflict.
C10_ConcurrentCreates == [][C10_State' /\ \A t \in Threads : C10_Step(t)]_vars

\* C10 witness: two create-project requests that overlapped (both read an
\* empty list, so both are named "Project 1") have both returned, and the
\* mapping holds the empty sequence for both ids.
C10_Witness ==
    /\ Created = Threads
    /\ \A t \in Threads :
           /\ response[t].body.name = "Project 1"
           /\ project_messages[response[t].body.id] = <<>>
    /\ Len(projects) = 2

====
